---- MODULE Spec2Model ----
(***************************************************************************)
(* A model of src/lmdbffi/src/lib.rs: the C boundary of an LMDB store.     *)
(*                                                                         *)
(* A handle (LMDBHandle, lib.rs:33-39) owns the environment, one optional  *)
(* suspended read transaction, the last engine error and a cache from      *)
(* database name to database identifier.  Every boundary function is one   *)
(* action: the whole handler, from its first engine call to its return.    *)
(* The storage engine is the external collaborator; it is modelled by what *)
(* its primitives return: the data-dependent result (a value, NotFound)    *)
(* or a hard error that the environment injects at one engine call of the  *)
(* handler (the input f of the actions).                                   *)
(***************************************************************************)
EXTENDS Integers, Sequences, FiniteSets, TLC

\* ------------------------------------------------------------------ bounds

\* The longest batch (num_keys) the host passes to get_multi / set_multi.
MaxKeys == 2

\* The largest values_buf_len the host passes.
MaxBuf == 3

\* The largest num_keys (length of value_lens) the host passes to get_databases.
MaxLens == 2

\* Keys of the default database, as byte strings (never empty).
Keys == {<<1>>, <<1, 2>>}

\* Values, as byte strings.
Vals == {<<5>>, <<6, 7>>}

\* The pairs the host writes: a key written with values of both lengths, and
\* the longer key.
Pairs == {<<<<1>>, <<5>>>>, <<<<1>>, <<6, 7>>>>, <<<<1, 2>>, <<6, 7>>>>}

\* Names of named databases, as byte strings.
DbNames == {<<3>>}

\* The hard error each engine primitive reports when the environment makes it
\* fail.  The handlers treat every error but NotFound alike, so one
\* representative per primitive is injected.
ErrBeginRo == "ReadersFull"     \* begin_ro_txn
ErrRenew == "BadRslot"          \* renew
ErrRead == "Corrupted"          \* get, open_ro_cursor, cursor item, open_db
ErrWrite == "MapFull"           \* begin_rw_txn, put, del, commit, create_db,
                                \* drop_db, clear_db

Handles == {1}

\* ------------------------------------------------------------------ state

VARIABLES
    store,          \* the committed store: [kv: key/value pairs of the default
                    \* database, dbs: names of the named databases]
    writer,         \* the handle whose write transaction holds the store's
                    \* write lock, 0 when the lock is free
    status,         \* per handle: "open", "closed" or "crashed"
    inactive_txn,   \* per handle: LMDBHandle.inactive_txn, <<>> for None
    rtxn,           \* per handle: the engine's view of the handle's read
                    \* transaction: "none", "active" or "reset"
    last_err,       \* per handle: LMDBHandle.last_err, "None" or an error
    databases,      \* per handle: LMDBHandle.databases, <<name, identifier>> pairs
    ret,            \* the most recent boundary call and what it returned
    call            \* per handle: the boundary call the handle is inside of,
                    \* with its locals (pc "idle" when it is inside none)

vars ==
    <<store, writer, status, inactive_txn, rtxn, last_err, databases, ret, call>>

\* ------------------------------------------------------------------ helpers

Min(a, b) == IF a < b THEN a ELSE b

\* Sequences over S of length lo..hi.
SeqsOf(S, lo, hi) == UNION {[1..n -> S] : n \in lo..hi}

\* Byte-wise lexicographic order (the default key comparison of the engine).
LexLess(a, b) ==
    \E i \in 1..(Min(Len(a), Len(b)) + 1) :
        /\ \A j \in 1..(i - 1) : a[j] = b[j]
        /\ \/ i > Len(a) /\ i <= Len(b)
           \/ i <= Len(a) /\ i <= Len(b) /\ a[i] < b[i]

RECURSIVE SortedSeq(_)
SortedSeq(S) ==
    IF S = {} THEN <<>>
    ELSE LET m == CHOOSE x \in S : \A y \in S \ {x} : LexLess(x, y)
         IN <<m>> \o SortedSeq(S \ {m})

\* A key/value map is a set of pairs <<key, value>> with unique keys.
Has(kv, k) == \E p \in kv : p[1] = k
ValOf(kv, k) == (CHOOSE p \in kv : p[1] = k)[2]
KvPutNoOverwrite(kv, k, v) == IF Has(kv, k) THEN kv ELSE kv \cup {<<k, v>>}
KvPut(kv, k, v) == {p \in kv : p[1] # k} \cup {<<k, v>>}
KvDel(kv, k) == {p \in kv : p[1] # k}
KvKeys(kv) == {p[1] : p \in kv}

EmptyStore == [kv |-> {}, dbs |-> {}]

\* The environment makes at most one engine call of a handler fail: f is the
\* number of that call within the handler (NoFault: none), e the error the
\* primitive called there reports.
NoFault == 0 - 1
Faults(n) == {NoFault} \cup (0..n)
FaultAt(f, j, e) == IF f = j THEN e ELSE "None"

None == <<>>
Some(t) == <<t>>

\* The record of a boundary call: what it hands back to the host.
\*   rc    the ReturnCode (or what became of the call when it returned none)
\*   err   the engine error that ended the call, "None" otherwise
\*   lens  the entries of value_lens the call wrote (it writes them in order)
\*   buf   the bytes the call wrote to values_buf (from its start)
\*   at    the number of keys/entries the call had finished when it ended
Call(h, op, rc, err, lens, buf, at) ==
    [h |-> h, op |-> op, rc |-> rc, err |-> err, lens |-> lens, buf |-> buf,
     at |-> at]

NoCall == Call(0, "none", "none", "None", <<>>, <<>>, 0)

\* ------------------------------------------------------- engine primitives

\* Environment::begin_ro_txn (lib.rs:101, 229): a new read transaction pins
\* the store as committed at that moment.
BeginRoTxn(committed) == committed

\* A renewed transaction that still reads the root it had when it was created.
RenewStale(committed) == EmptyStore

\* InactiveTransaction::renew (lib.rs:102, 230): the suspended transaction
\* holds no snapshot; renewing it pins the store as committed at that moment.
Renew(committed) == committed

\* The engine's view of a read transaction after it went out of scope without
\* being reset (Drop for RoTransaction aborts it): every return of
\* get_multi / get_databases but the last one (lib.rs:102, 112, 123, 239).
RoLeaked == "active"
RoDropped == "none"

\* The engine's view of a read transaction after RoTransaction::reset
\* (lib.rs:128, 248).
RoReset == "reset"

\* Transaction::get (lib.rs:107) under snapshot snap; e is the injected error.
TxnGet(snap, k, e) ==
    IF e # "None" THEN [err |-> e, val |-> <<>>]
    ELSE IF Has(snap.kv, k) THEN [err |-> "Ok", val |-> ValOf(snap.kv, k)]
    ELSE [err |-> "NotFound", val |-> <<>>]

\* RwTransaction::put with WriteFlags::empty() (lib.rs:163) on the working
\* copy of a write transaction.
TxnPut(work, k, v, e) ==
    IF e # "None" THEN [err |-> e, kv |-> work]
    ELSE [err |-> "Ok", kv |-> KvPut(work, k, v)]

\* A delete that reports an absent key as a success of the engine.
TxnDelSilent(work, k, e) ==
    IF e # "None" THEN [err |-> e, kv |-> work]
    ELSE [err |-> "Ok", kv |-> KvDel(work, k)]

\* RwTransaction::del (lib.rs:155): NotFound when the key is absent.
TxnDel(work, k, e) ==
    IF e # "None" THEN [err |-> e, kv |-> work]
    ELSE IF Has(work, k) THEN [err |-> "Ok", kv |-> KvDel(work, k)]
    ELSE [err |-> "NotFound", kv |-> work]

\* A write transaction whose mutations reach the store when it is dropped.
RwDropFlushes(committed, work) == work

\* The committed key/value pairs after a write transaction went out of scope
\* uncommitted (Drop for RwTransaction aborts it; lib.rs:159, 167).
RwDrop(committed, work) == committed

\* A commit that installs the working copy although it reports a failure.
CommitPartial(committed, work, e) == work

\* RwTransaction::commit (lib.rs:173): installs the working copy, or fails
\* and leaves the committed pairs as they were.
Commit(committed, work, e) == IF e # "None" THEN committed ELSE work

\* A write lock that stays with the handle after its transaction ended.
LockKept(h) == h

\* The owner of the store's write lock after a write transaction ended
\* (committed, failed to commit, or dropped): nobody.
LockReleased(h) == 0

\* A write that copies the whole value whatever space is left.
WriteAllUnchecked(buf, cap, val) == [ok |-> TRUE, buf |-> buf \o val]

\* <&mut [u8] as io::Write>::write_all (lib.rs:110, 237): copies as much of
\* val as fits in the space left and fails (WriteZero) when that is not all.
WriteAll(buf, cap, val) ==
    LET room == cap - Len(buf)
        n == Min(Len(val), room)
    IN [ok |-> Len(val) <= room, buf |-> buf \o SubSeq(val, 1, n)]

\* The length get_multi stores for a key that is not found (lib.rs:119).
NotFoundLen == 0 - 1

\* lmdb::Error::description (lib.rs:45): the engine's message for an error.
ErrDescription(e) ==
    CASE e = "NotFound" -> "MDB_NOTFOUND: No matching key/data pair found"
      [] e = "MapFull" -> "MDB_MAP_FULL: Environment mapsize limit reached"
      [] e = "ReadersFull" -> "MDB_READERS_FULL: Environment maxreaders limit reached"
      [] e = "Corrupted" -> "MDB_CORRUPTED: Located page was wrong type"
      [] e = "BadRslot" -> "MDB_BAD_RSLOT: Invalid reuse of reader locktable slot"
      [] e = "BadDbi" -> "MDB_BAD_DBI: The specified DBI handle was closed/changed unexpectedly"
      [] OTHER -> "NULL"

\* ------------------------------------------------------------ read handlers

\* What a panic inside an extern "C" function does once it reaches the
\* boundary: the process aborts, or (older toolchains) the stack unwinds into
\* the host; either way the call hands back no ReturnCode.
PanicOutcomes == {"ABORT", "UNWIND"}

\* An acquisition that begins a new transaction when the renewal fails.
AcquireReadFallback(slot, committed, f) ==
    IF slot = None /\ FaultAt(f, 0, ErrBeginRo) # "None"
    THEN [err |-> ErrBeginRo, snap |-> EmptyStore]
    ELSE [err |-> "None", snap |-> BeginRoTxn(committed)]

\* lib.rs:100-103 and 228-231: the suspended transaction is taken out of the
\* handle and renewed, or a new one is begun (engine call 0 of the handler).
AcquireRead(slot, committed, f) ==
    IF slot = None
    THEN IF FaultAt(f, 0, ErrBeginRo) # "None"
         THEN [err |-> ErrBeginRo, snap |-> EmptyStore]
         ELSE [err |-> "None", snap |-> BeginRoTxn(committed)]
    ELSE IF FaultAt(f, 0, ErrRenew) # "None"
         THEN [err |-> ErrRenew, snap |-> EmptyStore]
         ELSE [err |-> "None", snap |-> Renew(committed)]

\* A read handler that puts the transaction back whenever no error occurred.
SlotAfterReadKeep(rc) == IF rc \in {"OK", "AGAIN"} THEN Some("txn") ELSE None

\* What a read handler leaves in handle.inactive_txn: only the OK return
\* stores the transaction back (lib.rs:128, 248); on every other return the
\* slot stays as take() left it (lib.rs:100, 228).
SlotAfterRead(rc) == IF rc = "OK" THEN Some("txn") ELSE None

\* The engine's view of the read transaction when the handler is left: reset
\* on the OK return, gone out of scope on every other.
RtxnAfterRead(rc) == IF rc = "OK" THEN RoReset ELSE RoDropped

\* lib.rs:96: the slice of key lengths is built with *key_lens, the length of
\* the FIRST key, as its element count (not num_keys).
KeyLensSliceLen(keys) == Len(keys[1])

\* A read that looks at what is committed now, not at its snapshot.
TxnViewLive(snap, committed) == committed

\* What a read transaction looks at (lib.rs:107, txn.get): the snapshot it
\* got when it was begun or renewed, whatever has been committed since.
TxnView(snap, committed) == snap

\* lib.rs:106-125: the iteration of the loop for key i (1-based), with lens
\* and buf what the earlier iterations wrote.  Engine call number i of the
\* handler is the lookup of key i.  rc CONT: the loop goes on.
GetMultiIter(i, snap, keys, cap, f, lens, buf) ==
    IF i > KeyLensSliceLen(keys)
    THEN \* key_lens[i] is outside the slice: the index panics (lib.rs:106)
         [rc |-> "PANIC", err |-> "None", lens |-> lens, buf |-> buf, at |-> i - 1]
    ELSE LET g == TxnGet(snap, keys[i], FaultAt(f, i, ErrRead)) IN
         CASE g.err = "Ok" ->
                LET lens2 == Append(lens, Len(g.val))
                    w == WriteAll(buf, cap, g.val)
                IN IF w.ok
                   THEN [rc |-> "CONT", err |-> "None", lens |-> lens2,
                         buf |-> w.buf, at |-> i]
                   ELSE [rc |-> "AGAIN", err |-> "None", lens |-> lens2,
                         buf |-> w.buf, at |-> i - 1]
           [] g.err = "NotFound" ->
                [rc |-> "CONT", err |-> "None",
                 lens |-> Append(lens, NotFoundLen), buf |-> buf, at |-> i]
           [] OTHER ->
                [rc |-> "ERR", err |-> g.err, lens |-> lens, buf |-> buf,
                 at |-> i - 1]

\* lib.rs:105-130, the loop from its i-th key on, and the OK return.
RECURSIVE GetMultiLoop(_, _, _, _, _, _, _)
GetMultiLoop(i, snap, keys, cap, f, lens, buf) ==
    IF i > Len(keys)
    THEN [rc |-> "OK", err |-> "None", lens |-> lens, buf |-> buf, at |-> i - 1]
    ELSE LET r == GetMultiIter(i, snap, keys, cap, f, lens, buf)
         IN IF r.rc = "CONT"
            THEN GetMultiLoop(i + 1, snap, keys, cap, f, r.lens, r.buf)
            ELSE r

\* The body of ngx_lmdb_handle_get_multi (lib.rs:96-130) as a function of the
\* handle's slot, the committed store and the inputs.
GetMultiRun(slot, committed, keys, cap, f) ==
    LET a == AcquireRead(slot, committed, f)
    IN IF a.err # "None"
       THEN [rc |-> "ERR", err |-> a.err, lens |-> <<>>, buf |-> <<>>, at |-> 0]
       ELSE GetMultiLoop(1, a.snap, keys, cap, f, <<>>, <<>>)

\* The keys a cursor over the default database yields, in stored order: the
\* keys of the pairs and, since a named database is a record of the default
\* database, the names of the named databases.
CursorKeys(snap) == SortedSeq(KvKeys(snap.kv) \cup snap.dbs)

\* lib.rs:234-244, the loop from the i-th cursor item on.  Engine call 1 + i
\* of the handler yields item i (or the end of the iteration).
RECURSIVE GetDatabasesLoop(_, _, _, _, _, _, _)
GetDatabasesLoop(i, items, nk, cap, f, lens, buf) ==
    IF FaultAt(f, 1 + i, ErrRead) # "None"
    THEN [rc |-> "ERR", err |-> ErrRead, lens |-> lens, buf |-> buf, at |-> i - 1]
    ELSE IF i > Len(items)
    THEN [rc |-> "OK", err |-> "None", lens |-> lens, buf |-> buf, at |-> i - 1]
    ELSE IF i > nk
    THEN \* value_lens[i] is outside the slice: the index panics (lib.rs:236)
         [rc |-> "PANIC", err |-> "None", lens |-> lens, buf |-> buf, at |-> i - 1]
    ELSE LET lens2 == Append(lens, Len(items[i]))
             w == WriteAll(buf, cap, items[i])
         IN IF w.ok
            THEN GetDatabasesLoop(i + 1, items, nk, cap, f, lens2, w.buf)
            ELSE [rc |-> "AGAIN", err |-> "None", lens |-> lens2, buf |-> w.buf,
                  at |-> i - 1]

\* The body of ngx_lmdb_handle_get_databases (lib.rs:226-249): acquire the
\* transaction (call 0), open the cursor (call 1), the loop.
GetDatabasesRun(slot, committed, nk, cap, f) ==
    LET a == AcquireRead(slot, committed, f)
    IN IF a.err # "None"
       THEN [rc |-> "ERR", err |-> a.err, lens |-> <<>>, buf |-> <<>>, at |-> 0]
       ELSE IF FaultAt(f, 1, ErrRead) # "None"
       THEN [rc |-> "ERR", err |-> ErrRead, lens |-> <<>>, buf |-> <<>>, at |-> 0]
       ELSE GetDatabasesLoop(1, CursorKeys(a.snap), nk, cap, f, <<>>, <<>>)

\* The state a read handler leaves, r being the result of its body and po
\* what a panic does at the boundary.
ReadReturn(h, op, r, po) ==
    LET rc == IF r.rc = "PANIC" THEN po ELSE r.rc
    IN /\ r.rc # "PANIC" => po = "ABORT"
       /\ ret' = Call(h, op, rc, r.err, r.lens, r.buf, r.at)
       /\ status' = [status EXCEPT ![h] = IF rc = "ABORT" THEN "crashed" ELSE @]
       /\ inactive_txn' = [inactive_txn EXCEPT ![h] = SlotAfterRead(rc)]
       /\ rtxn' = [rtxn EXCEPT ![h] = RtxnAfterRead(rc)]
       /\ last_err' = [last_err EXCEPT ![h] =
                         IF rc = "ERR" THEN r.err
                         ELSE IF rc = "ABORT" THEN "None" ELSE @]
       /\ databases' = [databases EXCEPT ![h] = IF rc = "ABORT" THEN {} ELSE @]
       /\ UNCHANGED <<store, writer>>

\* ngx_lmdb_handle_get_multi (lib.rs:86-131).  keys: the num_keys keys;
\* cap: values_buf_len; f: the engine call the environment makes fail.
ngx_lmdb_handle_get_multi(h, keys, cap, f, po) ==
    /\ status[h] = "open"
    /\ LET r == GetMultiRun(inactive_txn[h], store, keys, cap, f)
       IN /\ f # NoFault => r.err # "None"
          /\ ReadReturn(h, "get_multi", r, po)

\* ngx_lmdb_handle_get_databases (lib.rs:218-250).  nk: num_keys, the length
\* of value_lens; cap: values_buf_len.
ngx_lmdb_handle_get_databases(h, nk, cap, f, po) ==
    /\ status[h] = "open"
    /\ LET r == GetDatabasesRun(inactive_txn[h], store, nk, cap, f)
       IN /\ f # NoFault => r.err # "None"
          /\ ReadReturn(h, "get_databases", r, po)

\* ------------------------------------------------------------ write handlers

\* An entry of a write batch: a key and a value, or a null value pointer.
Entries ==
    {[key |-> p[1], null |-> FALSE, val |-> p[2]] : p \in Pairs}
    \cup {[key |-> k, null |-> TRUE, val |-> <<>>] : k \in Keys}

\* lib.rs:150 builds a slice from value_ptrs[i] before line 152 tests the
\* pointer for null: from_raw_parts on a null pointer is undefined behaviour.
\* A build either goes on (the slice is never read) or aborts in the
\* precondition check of from_raw_parts, at the first null entry.  ub is the
\* entry at which it aborts (0: the build goes on).
NullSliceOutcomes(entries) ==
    {0} \cup {i \in 1..Len(entries) :
                /\ entries[i].null
                /\ \A j \in 1..(i - 1) : ~entries[j].null}

\* lib.rs:152-170: delete or put one entry.
Mutate(work, e, err) ==
    IF e.null THEN TxnDel(work, e.key, err) ELSE TxnPut(work, e.key, e.val, err)

\* A batch that stops at a delete of an absent key.
PassesOnlyOk(err) == err = "Ok"

\* lib.rs:156, 164: the results of a mutation the loop goes on after.
Passes(err) == err \in {"Ok", "NotFound"}

\* lib.rs:149-170: the iteration of the loop for entry i (1-based), on the
\* working copy of the write transaction.  Engine call number i is the
\* mutation of entry i.  rc CONT: the loop goes on.
SetMultiIter(i, work, entries, f, ub) ==
    IF ub = i
    THEN [rc |-> "ABORT", err |-> "None", kv |-> work, at |-> i - 1]
    ELSE LET m == Mutate(work, entries[i], FaultAt(f, i, ErrWrite))
         IN IF Passes(m.err)
            THEN [rc |-> "CONT", err |-> "None", kv |-> m.kv, at |-> i]
            ELSE [rc |-> "ERR", err |-> m.err, kv |-> m.kv, at |-> i - 1]

\* lib.rs:148-171, the loop from its i-th entry on, with work the working copy
\* of the write transaction.
RECURSIVE SetMultiLoop(_, _, _, _, _)
SetMultiLoop(i, work, entries, f, ub) ==
    IF i > Len(entries)
    THEN [rc |-> "CONT", err |-> "None", kv |-> work, at |-> i - 1]
    ELSE LET r == SetMultiIter(i, work, entries, f, ub)
         IN IF r.rc = "CONT"
            THEN SetMultiLoop(i + 1, r.kv, entries, f, ub)
            ELSE r

\* The body of ngx_lmdb_handle_set_multi (lib.rs:146-174) on the committed
\* pairs kv: begin_rw_txn (engine call 0), the loop, commit (engine call
\* num_keys + 1).  The result's kv are the committed pairs at the return.
SetMultiRun(kv, entries, f, ub) ==
    IF FaultAt(f, 0, ErrWrite) # "None"
    THEN [rc |-> "ERR", err |-> ErrWrite, kv |-> kv, at |-> 0]
    ELSE LET l == SetMultiLoop(1, kv, entries, f, ub)
             ec == FaultAt(f, Len(entries) + 1, ErrWrite)
         IN IF l.rc # "CONT"
            THEN [rc |-> l.rc, err |-> l.err, kv |-> RwDrop(kv, l.kv), at |-> l.at]
            ELSE [rc |-> IF ec # "None" THEN "ERR" ELSE "OK", err |-> ec,
                  kv |-> Commit(kv, l.kv, ec), at |-> l.at]

\* The state a write handler leaves on the handle: try_lmdb! and the error
\* arms store the error (lib.rs:26, 158, 166); an abort ends the process.
WriteReturn(h, rc, err) ==
    /\ writer' = LockReleased(h)
    /\ status' = [status EXCEPT ![h] = IF rc = "ABORT" THEN "crashed" ELSE @]
    /\ last_err' = [last_err EXCEPT ![h] =
                      IF rc = "ERR" THEN err
                      ELSE IF rc = "ABORT" THEN "None" ELSE @]
    /\ inactive_txn' = [inactive_txn EXCEPT ![h] = IF rc = "ABORT" THEN None ELSE @]
    /\ rtxn' = [rtxn EXCEPT ![h] = IF rc = "ABORT" THEN "none" ELSE @]

\* ngx_lmdb_handle_set_multi (lib.rs:133-175).  begin_rw_txn waits for the
\* store's write lock.
ngx_lmdb_handle_set_multi(h, entries, f, ub) ==
    /\ status[h] = "open"
    /\ writer = 0
    /\ LET r == SetMultiRun(store.kv, entries, f, ub)
       IN /\ f # NoFault => r.err # "None"
          /\ ret' = Call(h, "set_multi", r.rc, r.err, <<>>, <<>>, r.at)
          /\ store' = [store EXCEPT !.kv = r.kv]
          /\ WriteReturn(h, r.rc, r.err)
          /\ databases' = [databases EXCEPT ![h] = IF r.rc = "ABORT" THEN {} ELSE @]

\* The identifiers of the two databases every environment has from the start
\* (the engine's own and the default database); named databases get the
\* identifiers after them.
CoreDbs == 2

\* handle.databases as a set of <<name, identifier>> pairs.
CacheNames(cache) == {p[1] : p \in cache}
CacheDbi(cache, name) == (CHOOSE p \in cache : p[1] = name)[2]

\* The identifier the engine hands out when a name is opened that the
\* environment has not open: the first one that is free.
FreshDbi(cache) ==
    CHOOSE n \in CoreDbs..(CoreDbs + Cardinality(cache)) :
        /\ \A p \in cache : p[2] # n
        /\ \A m \in CoreDbs..(n - 1) : \E p \in cache : p[2] = m

\* A lookup that never finds the name.
CacheMiss(cache, name) == FALSE

\* lib.rs:257: handle.databases.get(name) finds an entry.
CacheHit(cache, name) == name \in CacheNames(cache)

\* A resolution that caches nothing.
CacheInsertNothing(cache, name, dbi) == cache

\* lib.rs:265: handle.databases.insert(name, dbi).
CacheInsert(cache, name, dbi) == {p \in cache : p[1] # name} \cup {<<name, dbi>>}

\* A drop that leaves the name in the cache.
CacheKeep(cache, name) == cache

\* lib.rs:214: handle.databases.remove(name).
CacheRemove(cache, name) == {p \in cache : p[1] # name}

\* A drop that leaves the database in the store.
DropDbKeeps(dbs, name) == dbs

\* lib.rs:211-212: txn.drop_db(dbi), committed: the database is gone.
DropDb(dbs, name) == dbs \ {name}

\* The identifier no resolution returned.
NoDbi == 0

\* get_database_handle (lib.rs:252-269): the cached identifier, or the one
\* create_db / open_db returns (engine call 0 of the caller), which is cached.
\* create_db commits the new database itself.
GetDatabaseHandle(cache, dbs, name, create, f) ==
    IF CacheHit(cache, name)
    THEN [err |-> "None", cache |-> cache, dbs |-> dbs,
          dbi |-> CacheDbi(cache, name)]
    ELSE IF create
    THEN IF FaultAt(f, 0, ErrWrite) # "None"
         THEN [err |-> ErrWrite, cache |-> cache, dbs |-> dbs, dbi |-> NoDbi]
         ELSE [err |-> "None",
               cache |-> CacheInsert(cache, name, FreshDbi(cache)),
               dbs |-> dbs \cup {name}, dbi |-> FreshDbi(cache)]
    ELSE IF FaultAt(f, 0, ErrRead) # "None"
         THEN [err |-> ErrRead, cache |-> cache, dbs |-> dbs, dbi |-> NoDbi]
         ELSE IF name \in dbs
         THEN [err |-> "None",
               cache |-> CacheInsert(cache, name, FreshDbi(cache)),
               dbs |-> dbs, dbi |-> FreshDbi(cache)]
         ELSE [err |-> "NotFound", cache |-> cache, dbs |-> dbs, dbi |-> NoDbi]

\* The body of clear_database (del = FALSE, lib.rs:183-188) and of
\* drop_database (del = TRUE, lib.rs:208-215): resolve the name (call 0),
\* begin_rw_txn (call 1), clear_db / drop_db (call 2), commit (call 3).  A
\* cached identifier whose database is gone is refused by the engine.
\* Named databases hold no pairs (no boundary call writes to one), so clearing
\* one changes nothing.
DropOrClearRun(cache, dbs, name, del, f) ==
    LET g == GetDatabaseHandle(cache, dbs, name, FALSE, f)
    IN IF g.err # "None" THEN [rc |-> "ERR", err |-> g.err, cache |-> g.cache,
                               dbs |-> g.dbs]
       ELSE IF FaultAt(f, 1, ErrWrite) # "None"
       THEN [rc |-> "ERR", err |-> ErrWrite, cache |-> g.cache, dbs |-> g.dbs]
       ELSE IF name \notin g.dbs
       THEN [rc |-> "ERR", err |-> "BadDbi", cache |-> g.cache, dbs |-> g.dbs]
       ELSE IF FaultAt(f, 2, ErrWrite) # "None"
       THEN [rc |-> "ERR", err |-> ErrWrite, cache |-> g.cache, dbs |-> g.dbs]
       ELSE IF FaultAt(f, 3, ErrWrite) # "None"
       THEN [rc |-> "ERR", err |-> ErrWrite, cache |-> g.cache, dbs |-> g.dbs]
       ELSE IF del
       THEN [rc |-> "OK", err |-> "None", cache |-> CacheRemove(g.cache, name),
             dbs |-> DropDb(g.dbs, name)]
       ELSE [rc |-> "OK", err |-> "None", cache |-> g.cache, dbs |-> g.dbs]

\* The state a database call leaves.
DatabaseReturn(h, op, name, r) ==
    /\ ret' = Call(h, op, r.rc, r.err, <<>>, <<>>, 0)
    /\ store' = [store EXCEPT !.dbs = r.dbs]
    /\ databases' = [databases EXCEPT ![h] = r.cache]
    /\ WriteReturn(h, r.rc, r.err)

\* ngx_lmdb_handle_clear_database (lib.rs:177-189).
ngx_lmdb_handle_clear_database(h, name, f) ==
    /\ status[h] = "open"
    /\ writer = 0
    /\ LET r == DropOrClearRun(databases[h], store.dbs, name, FALSE, f)
       IN /\ f # NoFault => r.err # "None"
          /\ f = 0 => ~CacheHit(databases[h], name)
          /\ DatabaseReturn(h, "clear_database", name, r)

\* ngx_lmdb_handle_drop_database (lib.rs:202-216).
ngx_lmdb_handle_drop_database(h, name, f) ==
    /\ status[h] = "open"
    /\ writer = 0
    /\ LET r == DropOrClearRun(databases[h], store.dbs, name, TRUE, f)
       IN /\ f # NoFault => r.err # "None"
          /\ f = 0 => ~CacheHit(databases[h], name)
          /\ DatabaseReturn(h, "drop_database", name, r)

\* ngx_lmdb_handle_create_database (lib.rs:191-200).
ngx_lmdb_handle_create_database(h, name, f) ==
    /\ status[h] = "open"
    /\ writer = 0
    /\ LET g == GetDatabaseHandle(databases[h], store.dbs, name, TRUE, f)
           r == [rc |-> IF g.err # "None" THEN "ERR" ELSE "OK", err |-> g.err,
                 cache |-> g.cache, dbs |-> g.dbs]
       IN /\ f # NoFault => r.err # "None"
          /\ DatabaseReturn(h, "create_database", name, r)

\* ------------------------------------------------- last error, open, close

\* An accessor that hands the description back and leaves the error pending.
TakeLastErrKeep(e) ==
    [ptr |-> IF e # "None" THEN ErrDescription(e) ELSE "NULL", slot |-> e]

\* lib.rs:43-50 on the pending error e: the pointer handed back and what is
\* left in handle.last_err.
TakeLastErr(e) ==
    [ptr |-> IF e # "None" THEN ErrDescription(e) ELSE "NULL", slot |-> "None"]

\* ngx_lmdb_handle_get_last_err (lib.rs:41-51): hands back the description
\* of the pending error and clears it, or null.
ngx_lmdb_handle_get_last_err(h) ==
    /\ status[h] = "open"
    /\ ret' = Call(h, "get_last_err", TakeLastErr(last_err[h]).ptr, "None",
                   <<>>, <<>>, 0)
    /\ last_err' = [last_err EXCEPT ![h] = TakeLastErr(last_err[h]).slot]
    /\ UNCHANGED <<store, writer, status, inactive_txn, rtxn, databases>>

\* ngx_lmdb_handle_open (lib.rs:53-79): a new handle with every field empty,
\* or null when the environment cannot be opened.
ngx_lmdb_handle_open(h, ok) ==
    /\ status[h] # "open"
    /\ ret' = Call(h, "open", IF ok THEN "HANDLE" ELSE "NULL", "None", <<>>,
                   <<>>, 0)
    /\ status' = [status EXCEPT ![h] = IF ok THEN "open" ELSE "closed"]
    /\ UNCHANGED <<store, writer, inactive_txn, rtxn, last_err, databases>>

\* The fields of LMDBHandle in declaration order (lib.rs:33-39), which is the
\* order in which dropping the box releases them.
DropOrder == <<"env", "inactive_txn", "last_err", "default_db", "databases">>

\* Field a is released before field b when the handle is dropped.
DroppedBefore(a, b) ==
    \E i, j \in 1..Len(DropOrder) :
        DropOrder[i] = a /\ DropOrder[j] = b /\ i < j

\* ngx_lmdb_handle_close (lib.rs:81-84): the box is dropped, its fields in
\* declaration order.  With a suspended transaction on the handle the
\* environment is closed before the transaction is aborted: the abort then
\* works on a closed environment, which either goes unnoticed or ends the
\* process (co).
ngx_lmdb_handle_close(h, co) ==
    /\ status[h] = "open"
    /\ co = "ABORT" => inactive_txn[h] # None /\ DroppedBefore("env", "inactive_txn")
    /\ ret' = Call(h, "close", co, "None", <<>>, <<>>, 0)
    /\ status' = [status EXCEPT ![h] = IF co = "ABORT" THEN "crashed" ELSE "closed"]
    /\ inactive_txn' = [inactive_txn EXCEPT ![h] = None]
    /\ rtxn' = [rtxn EXCEPT ![h] = "none"]
    /\ last_err' = [last_err EXCEPT ![h] = "None"]
    /\ databases' = [databases EXCEPT ![h] = {}]
    /\ UNCHANGED <<store, writer>>

\* ------------------------------------------------------------ specification

\* The locals of a handle that is inside no boundary call.
Idle ==
    [pc |-> "idle", keys |-> <<>>, cap |-> 0, entries |-> <<>>, i |-> 0,
     snap |-> EmptyStore, pre |-> {}, lens |-> <<>>, buf |-> <<>>, work |-> {}]

\* ngx_lmdb_handle_open has returned a handle for every element of Handles,
\* on a fresh path.
Init ==
    /\ store = EmptyStore
    /\ writer = 0
    /\ status = [h \in Handles |-> "open"]
    /\ inactive_txn = [h \in Handles |-> None]
    /\ rtxn = [h \in Handles |-> "none"]
    /\ last_err = [h \in Handles |-> "None"]
    /\ databases = [h \in Handles |-> {}]
    /\ ret = NoCall
    /\ call = [h \in Handles |-> Idle]

\* The inputs the host passes: batches of keys and of entries, buffer sizes.
KeyBatches == SeqsOf(Keys, 1, MaxKeys)
EntryBatches == SeqsOf(Entries, 0, MaxKeys)
BufLens == 0..MaxBuf

GetMulti ==
    \E h \in DOMAIN status, keys \in KeyBatches, cap \in BufLens :
        \E f \in Faults(Len(keys)), po \in PanicOutcomes :
            ngx_lmdb_handle_get_multi(h, keys, cap, f, po) /\ UNCHANGED call

SetMulti ==
    \E h \in DOMAIN status, entries \in EntryBatches :
        \E f \in Faults(Len(entries) + 1), ub \in NullSliceOutcomes(entries) :
            ngx_lmdb_handle_set_multi(h, entries, f, ub) /\ UNCHANGED call

GetDatabases ==
    \E h \in DOMAIN status, nk \in 0..MaxLens, cap \in BufLens :
        \E f \in Faults(2 + Cardinality(Keys \cup DbNames)), po \in PanicOutcomes :
            ngx_lmdb_handle_get_databases(h, nk, cap, f, po) /\ UNCHANGED call

ClearDatabase ==
    \E h \in DOMAIN status, name \in DbNames, f \in Faults(3) :
        ngx_lmdb_handle_clear_database(h, name, f) /\ UNCHANGED call

DropDatabase ==
    \E h \in DOMAIN status, name \in DbNames, f \in Faults(3) :
        ngx_lmdb_handle_drop_database(h, name, f) /\ UNCHANGED call

CreateDatabase ==
    \E h \in DOMAIN status, name \in DbNames, f \in Faults(0) :
        ngx_lmdb_handle_create_database(h, name, f) /\ UNCHANGED call

GetLastErr == \E h \in DOMAIN status : ngx_lmdb_handle_get_last_err(h) /\ UNCHANGED call

Open == \E h \in DOMAIN status, ok \in BOOLEAN : ngx_lmdb_handle_open(h, ok) /\ UNCHANGED call

Close == \E h \in DOMAIN status, co \in {"VOID", "ABORT"} : ngx_lmdb_handle_close(h, co) /\ UNCHANGED call

Next ==
    \/ GetMulti
    \/ SetMulti
    \/ GetDatabases
    \/ ClearDatabase
    \/ DropDatabase
    \/ CreateDatabase
    \/ GetLastErr
    \/ Open
    \/ Close

Spec == Init /\ [][Next]_vars

\* ------------------------------------- the handlers step by step, two handles

\* Two handles on one store (two workers of the host): each engine call of
\* get_multi and of set_multi is a step of its own, so that the calls of the
\* two handles interleave.
ConcHandles == {1, 2}

InitConc ==
    /\ store = EmptyStore
    /\ writer = 0
    /\ status = [h \in ConcHandles |-> "open"]
    /\ inactive_txn = [h \in ConcHandles |-> None]
    /\ rtxn = [h \in ConcHandles |-> "none"]
    /\ last_err = [h \in ConcHandles |-> "None"]
    /\ databases = [h \in ConcHandles |-> {}]
    /\ ret = NoCall
    /\ call = [h \in ConcHandles |-> Idle]

\* lib.rs:96-103: get_multi takes the suspended transaction out of the handle
\* and renews it, or begins one; pre remembers what was committed then.
\* f: the engine call the environment makes fail in this step, if any.
get_multi_enter(h, keys, cap, f) ==
    /\ status[h] = "open"
    /\ call[h].pc = "idle"
    /\ LET a == AcquireRead(inactive_txn[h], store, f)
       IN IF a.err # "None"
          THEN /\ ReadReturn(h, "get_multi",
                             [rc |-> "ERR", err |-> a.err, lens |-> <<>>,
                              buf |-> <<>>, at |-> 0], "ABORT")
               /\ UNCHANGED call
          ELSE /\ f = NoFault
               /\ call' = [call EXCEPT ![h] =
                             [Idle EXCEPT !.pc = "reading", !.keys = keys,
                                          !.cap = cap, !.i = 1,
                                          !.snap = a.snap, !.pre = store.kv]]
               /\ inactive_txn' = [inactive_txn EXCEPT ![h] = None]
               /\ rtxn' = [rtxn EXCEPT ![h] = "active"]
               /\ UNCHANGED <<store, writer, status, last_err, databases, ret>>

\* lib.rs:105-130: one iteration of the loop of get_multi, or, after the last
\* key, the OK return that suspends the transaction.
get_multi_step(h, f, po) ==
    /\ call[h].pc = "reading"
    /\ LET c == call[h]
           r == IF c.i > Len(c.keys)
                THEN [rc |-> "OK", err |-> "None", lens |-> c.lens,
                      buf |-> c.buf, at |-> c.i - 1]
                ELSE GetMultiIter(c.i, TxnView(c.snap, store), c.keys, c.cap,
                                  f, c.lens, c.buf)
       IN /\ f # NoFault => r.err # "None"
          /\ IF r.rc = "CONT"
             THEN /\ po = "ABORT"
                  /\ call' = [call EXCEPT ![h].i = c.i + 1, ![h].lens = r.lens,
                                          ![h].buf = r.buf]
                  /\ UNCHANGED <<store, writer, status, inactive_txn, rtxn,
                                 last_err, databases, ret>>
             ELSE /\ ReadReturn(h, "get_multi", r, po)
                  /\ call' = [call EXCEPT ![h] = Idle]

\* lib.rs:142-146: set_multi begins its write transaction; begin_rw_txn waits
\* for the store's write lock.
set_multi_enter(h, entries, f) ==
    /\ status[h] = "open"
    /\ call[h].pc = "idle"
    /\ writer = 0
    /\ IF FaultAt(f, 0, ErrWrite) # "None"
       THEN /\ ret' = Call(h, "set_multi", "ERR", ErrWrite, <<>>, <<>>, 0)
            /\ WriteReturn(h, "ERR", ErrWrite)
            /\ UNCHANGED <<store, databases, call>>
       ELSE /\ f = NoFault
            /\ writer' = h
            /\ call' = [call EXCEPT ![h] =
                          [Idle EXCEPT !.pc = "writing", !.entries = entries,
                                       !.i = 1, !.work = store.kv]]
            /\ UNCHANGED <<store, status, inactive_txn, rtxn, last_err,
                           databases, ret>>

\* lib.rs:148-171: one iteration of the loop of set_multi, on the working
\* copy of its transaction; an error return drops the transaction.  ub: the
\* entry at which the build aborts on the slice of a null pointer, if any.
set_multi_step(h, f, ub) ==
    /\ call[h].pc = "writing"
    /\ call[h].i <= Len(call[h].entries)
    /\ LET c == call[h]
           r == SetMultiIter(c.i, c.work, c.entries, f, ub)
       IN /\ f # NoFault => r.err # "None"
          /\ IF r.rc = "CONT"
             THEN /\ call' = [call EXCEPT ![h].i = c.i + 1, ![h].work = r.kv]
                  /\ UNCHANGED <<store, writer, status, inactive_txn, rtxn,
                                 last_err, databases, ret>>
             ELSE /\ ret' = Call(h, "set_multi", r.rc, r.err, <<>>, <<>>, r.at)
                  /\ store' = [store EXCEPT !.kv = RwDrop(store.kv, r.kv)]
                  /\ WriteReturn(h, r.rc, r.err)
                  /\ databases' = [databases EXCEPT ![h] =
                                      IF r.rc = "ABORT" THEN {} ELSE @]
                  /\ call' = [call EXCEPT ![h] = Idle]

\* lib.rs:173-174: the commit of set_multi and its return.
set_multi_commit(h, f) ==
    /\ call[h].pc = "writing"
    /\ call[h].i > Len(call[h].entries)
    /\ LET c == call[h]
           ec == FaultAt(f, Len(c.entries) + 1, ErrWrite)
           rc == IF ec # "None" THEN "ERR" ELSE "OK"
       IN /\ ret' = Call(h, "set_multi", rc, ec, <<>>, <<>>, Len(c.entries))
          /\ store' = [store EXCEPT !.kv = Commit(store.kv, c.work, ec)]
          /\ WriteReturn(h, rc, ec)
          /\ UNCHANGED databases
          /\ call' = [call EXCEPT ![h] = Idle]

GetMultiEnter ==
    \E h \in DOMAIN status, keys \in KeyBatches, cap \in BufLens :
        \E f \in {NoFault, 0} : get_multi_enter(h, keys, cap, f)

GetMultiStep ==
    \E h \in DOMAIN status, po \in PanicOutcomes :
        \E f \in {NoFault, call[h].i} : get_multi_step(h, f, po)

SetMultiEnter ==
    \E h \in DOMAIN status, entries \in EntryBatches :
        \E f \in {NoFault, 0} : set_multi_enter(h, entries, f)

SetMultiStep ==
    \E h \in DOMAIN status :
        \E f \in {NoFault, call[h].i} :
            \E ub \in NullSliceOutcomes(call[h].entries) \cap {0, call[h].i} :
                set_multi_step(h, f, ub)

SetMultiCommit ==
    \E h \in DOMAIN status :
        \E f \in {NoFault, call[h].i} : set_multi_commit(h, f)

CloseIdle ==
    \E h \in DOMAIN status, co \in {"VOID", "ABORT"} :
        /\ call[h].pc = "idle"
        /\ ngx_lmdb_handle_close(h, co)
        /\ UNCHANGED call

\* One handle, its calls step by step.
NextSteps ==
    \/ GetMultiEnter
    \/ GetMultiStep
    \/ SetMultiEnter
    \/ SetMultiStep
    \/ SetMultiCommit
    \/ CloseIdle
    \/ Open

SpecSteps == Init /\ [][NextSteps]_vars

\* Two handles: handle 1 reads batches of MaxKeys keys into a buffer that is
\* large enough while handle 2 writes batches of MaxKeys entries; the engine
\* refuses the commit of a batch, or nothing.
Reader == 1
Writer == 2
ConcKeyBatches == {keys \in KeyBatches : Len(keys) = MaxKeys}
ConcEntryBatches == {entries \in EntryBatches : Len(entries) = MaxKeys}

ReaderEnter ==
    \E keys \in ConcKeyBatches : get_multi_enter(Reader, keys, MaxBuf, NoFault)

ReaderStep ==
    \E po \in PanicOutcomes : get_multi_step(Reader, NoFault, po)

WriterEnter ==
    \E entries \in ConcEntryBatches : set_multi_enter(Writer, entries, NoFault)

WriterStep ==
    \E ub \in NullSliceOutcomes(call[Writer].entries) \cap {0, call[Writer].i} :
        set_multi_step(Writer, NoFault, ub)

WriterCommit ==
    \E f \in {NoFault, call[Writer].i} : set_multi_commit(Writer, f)

NextConc ==
    \/ ReaderEnter
    \/ ReaderStep
    \/ WriterEnter
    \/ WriterStep
    \/ WriterCommit

SpecConc == InitConc /\ [][NextConc]_vars

\* ==================================================================== claims

OpenHandles == {h \in DOMAIN status : status[h] = "open"}

\* The reference lookup: what a batch of keys must yield on the pairs kv.
ExpectLens(kv, keys) ==
    [i \in 1..Len(keys) |->
        IF Has(kv, keys[i]) THEN Len(ValOf(kv, keys[i])) ELSE 0 - 1]

RECURSIVE ExpectBuf(_, _)
ExpectBuf(kv, keys) ==
    IF keys = <<>> THEN <<>>
    ELSE (IF Has(kv, Head(keys)) THEN ValOf(kv, Head(keys)) ELSE <<>>)
         \o ExpectBuf(kv, Tail(keys))

\* Entry i of the batch puts (k, v) and no later entry touches k.
LastPut(entries, k, v) ==
    \E i \in 1..Len(entries) :
        /\ entries[i] = [key |-> k, null |-> FALSE, val |-> v]
        /\ \A j \in (i + 1)..Len(entries) : entries[j].key # k

\* ------------------------------------------------------------------- C1
\* C1: batch atomicity of ngx_lmdb_handle_set_multi: in every reachable state
\* and for every batch, when begin_rw_txn, one of the mutations (after N >= 0
\* successful ones) or the commit fails with a hard engine error, the call
\* returns ERR and the committed contents of the default database are exactly
\* those of before the call.
C1_BatchAtomicity ==
    \A entries \in EntryBatches :
        \A f \in 0..(Len(entries) + 1), ub \in NullSliceOutcomes(entries) :
            LET r == SetMultiRun(store.kv, entries, f, ub)
            IN r.err # "None" => r.rc = "ERR" /\ r.kv = store.kv

\* A set_multi has returned ERR after at least one mutation of its batch
\* went through, on a store that holds a pair.
C1_Witness ==
    /\ ret.op = "set_multi" /\ ret.rc = "ERR" /\ ret.at >= 1
    /\ store.kv # {}

\* ------------------------------------------------------------------- C2
\* C2: round trip: in every reachable state, for every batch that set_multi
\* commits (returns OK) and every pair (k, v) the batch stores last for k, a
\* following get_multi of k with a buffer of at least Len(v) bytes returns OK,
\* length Len(v) and the bytes of v, whether the handle holds a suspended
\* read transaction or none (the engine reporting no hard error to the read).
C2_RoundTrip ==
    \A entries \in EntryBatches :
        \A ub \in NullSliceOutcomes(entries) :
            LET s == SetMultiRun(store.kv, entries, NoFault, ub)
            IN s.rc = "OK" =>
                 \A k \in Keys, v \in Vals :
                    LastPut(entries, k, v) =>
                        \A cap \in BufLens, slot \in {None, Some("txn")} :
                            LET g == GetMultiRun(slot, [store EXCEPT !.kv = s.kv],
                                                 <<k>>, cap, NoFault)
                            IN cap >= Len(v) =>
                                 /\ g.rc = "OK"
                                 /\ g.lens = <<Len(v)>>
                                 /\ g.buf = v

\* A get_multi has returned OK with the two-byte value in the buffer, which
\* only a committed set_multi can have stored.
C2_Witness ==
    /\ ret.op = "get_multi" /\ ret.rc = "OK"
    /\ ret.lens = <<2>> /\ ret.buf = <<6, 7>>
    /\ \E k \in Keys : <<k, <<6, 7>>>> \in store.kv

\* ------------------------------------------------------------------- C3
\* C3: get_multi against the reference lookup: for every batch of keys
\* (whatever the key lengths) and every buffer that is large enough, the body
\* of get_multi returns OK, value_lens holds for every key the length of its
\* value, or -1 when it is absent, and the buffer the concatenation of the
\* values found, in key order.
C3_GetMultiMatchesLookup ==
    \A h \in OpenHandles, keys \in KeyBatches, cap \in BufLens :
        LET r == GetMultiRun(inactive_txn[h], store, keys, cap, NoFault)
        IN cap >= Len(ExpectBuf(store.kv, keys)) =>
             /\ r.rc = "OK"
             /\ r.lens = ExpectLens(store.kv, keys)
             /\ r.buf = ExpectBuf(store.kv, keys)

\* ------------------------------------------------------------------- C4
\* C4: buffer exhaustion in get_multi: when the values found do not fit in
\* the buffer the call returns AGAIN; value_lens then holds the true lengths
\* (or -1) of the keys up to and including the one that did not fit, nothing
\* is written beyond values_buf_len, and a retry of the same keys on the
\* unchanged store with a buffer of the sum of the true value lengths
\* returns OK.
C4_BufferExhaustion ==
    \A h \in OpenHandles, keys \in KeyBatches, cap \in BufLens :
        LET r == GetMultiRun(inactive_txn[h], store, keys, cap, NoFault)
            need == Len(ExpectBuf(store.kv, keys))
            retry == GetMultiRun(SlotAfterRead("AGAIN"), store, keys, need, NoFault)
        IN /\ cap < need => r.rc = "AGAIN"
           /\ r.rc = "AGAIN" =>
                /\ Len(r.lens) >= 1
                /\ r.lens = SubSeq(ExpectLens(store.kv, keys), 1, Len(r.lens))
                /\ Len(r.buf) <= cap
                /\ retry.rc = "OK"

\* ------------------------------------------------------------------- C5
\* The lengths and the bytes an enumeration of the store yields.
RECURSIVE ConcatAll(_)
ConcatAll(items) ==
    IF items = <<>> THEN <<>> ELSE Head(items) \o ConcatAll(Tail(items))

ItemLens(items) == [i \in 1..Len(items) |-> Len(items[i])]

\* C5 as stated: whenever get_databases has returned AGAIN, the read
\* transaction is stored back on the handle as the suspended transaction.
C5_KeepsTxnOnAgain ==
    (ret.op = "get_databases" /\ ret.rc = "AGAIN") =>
        /\ inactive_txn[ret.h] # None
        /\ rtxn[ret.h] = "reset"

\* C5, amended: whenever get_databases has returned AGAIN, the read
\* transaction is gone and the suspended slot of the handle is empty; a
\* retry begins a new transaction, and when it returns OK it has enumerated
\* the store as committed at the time of the retry.
C5_DropsTxnOnAgain ==
    /\ (ret.op = "get_databases" /\ ret.rc = "AGAIN") =>
          /\ inactive_txn[ret.h] = None
          /\ rtxn[ret.h] = "none"
    /\ \A h \in OpenHandles, nk \in 0..MaxLens, cap \in BufLens :
          LET r == GetDatabasesRun(inactive_txn[h], store, nk, cap, NoFault)
              retry == GetDatabasesRun(SlotAfterRead(r.rc), store, MaxLens + 1,
                                       MaxBuf + 1, NoFault)
          IN r.rc = "AGAIN" =>
               /\ SlotAfterRead(r.rc) = None
               /\ retry.rc = "OK" =>
                     /\ retry.lens = ItemLens(CursorKeys(store))
                     /\ retry.buf = ConcatAll(CursorKeys(store))

\* get_databases has returned AGAIN after it stored the length of an item.
C5_Witness ==
    /\ ret.op = "get_databases" /\ ret.rc = "AGAIN"
    /\ Len(ret.lens) >= 1
    /\ store.dbs # {}

\* ------------------------------------------------------------------- C6
\* C6: delete-then-get: for every batch holding an entry with a null value
\* pointer for a key that is absent from the default database, set_multi
\* returns OK, the pairs the batch stores last are committed, and a following
\* get_multi of a key the batch deletes last returns OK with length -1.
C6_DeleteThenGet ==
    \A h \in OpenHandles, entries \in EntryBatches :
        \A ub \in NullSliceOutcomes(entries) :
            LET s == SetMultiRun(store.kv, entries, NoFault, ub)
                after == [store EXCEPT !.kv = s.kv]
            IN (\E i \in 1..Len(entries) :
                    entries[i].null /\ ~Has(store.kv, entries[i].key)) =>
                 /\ s.rc = "OK"
                 /\ \A k \in Keys, v \in Vals :
                       LastPut(entries, k, v) => <<k, v>> \in s.kv
                 /\ \A i \in 1..Len(entries) :
                       (/\ entries[i].null
                        /\ \A j \in (i + 1)..Len(entries) :
                              entries[j].key # entries[i].key) =>
                          LET g == GetMultiRun(inactive_txn[h], after,
                                               <<entries[i].key>>, MaxBuf, NoFault)
                          IN g.rc = "OK" /\ g.lens = <<0 - 1>>

\* ------------------------------------------------------------------- C7
\* C7: the last error is retrievable exactly once: whenever a boundary call
\* has returned ERR, the handle holds the error of that call, and the next
\* get_last_err hands back the (non-null) description of that error; every
\* get_last_err leaves the slot empty, so that a get_last_err that follows
\* it immediately hands back null.
C7_LastErrOnce ==
    /\ ret.rc = "ERR" =>
          /\ ret.err # "None"
          /\ last_err[ret.h] = ret.err
          /\ TakeLastErr(last_err[ret.h]).ptr = ErrDescription(ret.err)
          /\ ErrDescription(ret.err) # "NULL"
    /\ \A h \in OpenHandles :
          LET t == TakeLastErr(last_err[h])
          IN /\ t.slot = "None"
             /\ TakeLastErr(t.slot).ptr = "NULL"
    /\ ret.op = "get_last_err" => last_err[ret.h] = "None"

\* get_last_err has handed back a description and left the slot empty.
C7_Witness ==
    /\ ret.op = "get_last_err"
    /\ ret.rc = ErrDescription("MapFull")
    /\ last_err[ret.h] = "None"

\* ------------------------------------------------------------------- C8
BoundaryOps ==
    {"get_multi", "set_multi", "get_databases", "create_database",
     "drop_database", "clear_database"}

\* Every boundary call that returns OK or AGAIN leaves last_err as it was.
C8_Frame ==
    (ret'.op \in BoundaryOps /\ ret'.rc \in {"OK", "AGAIN"}) =>
        last_err' = last_err

\* C8 as stated: after every boundary call no handle's last-error slot holds
\* NotFound, and every call that returns OK or AGAIN leaves the slot as it
\* was before the call.
C8_NeverNotFound ==
    [][(\A h \in DOMAIN last_err : last_err'[h] # "NotFound") /\ C8_Frame]_vars

\* C8, amended: get_multi, set_multi, get_databases and create_database never
\* store NotFound; only a clear_database or drop_database that returns ERR
\* (the name is no database) stores it; and every boundary call that returns
\* OK or AGAIN leaves the last-error slot as it was before the call.
C8_NotFoundOnlyFromMissingDb ==
    [][/\ C8_Frame
       /\ ret'.op \in {"get_multi", "set_multi", "get_databases", "create_database"}
             => ret'.err # "NotFound"
       /\ \A h \in DOMAIN last_err :
             (last_err'[h] = "NotFound" /\ last_err[h] # "NotFound") =>
                /\ ret'.op \in {"clear_database", "drop_database"}
                /\ ret'.rc = "ERR" /\ ret'.h = h]_vars

\* clear_database of a name that is no database has returned ERR and left
\* NotFound as the last error.
C8_Witness ==
    /\ ret.op = "clear_database" /\ ret.rc = "ERR"
    /\ last_err[ret.h] = "NotFound"

\* ------------------------------------------------------------------- C9
\* C9 as stated: when the handle holds a suspended read transaction and its
\* renewal fails, get_multi and get_databases do not return ERR: they do
\* what the call does on a newly begun transaction.
C9_RenewFallsBack ==
    \A h \in OpenHandles :
        inactive_txn[h] # None =>
            /\ \A keys \in KeyBatches, cap \in BufLens :
                  /\ GetMultiRun(inactive_txn[h], store, keys, cap, 0).rc # "ERR"
                  /\ GetMultiRun(inactive_txn[h], store, keys, cap, 0)
                       = GetMultiRun(None, store, keys, cap, NoFault)
            /\ \A nk \in 0..MaxLens, cap \in BufLens :
                  /\ GetDatabasesRun(inactive_txn[h], store, nk, cap, 0).rc # "ERR"
                  /\ GetDatabasesRun(inactive_txn[h], store, nk, cap, 0)
                       = GetDatabasesRun(None, store, nk, cap, NoFault)

\* C9, amended: when the handle holds a suspended read transaction and its
\* renewal fails, get_multi and get_databases return ERR with the renewal
\* error, having read nothing, and leave the suspended slot empty and the
\* error as the last error; no new transaction is begun in that call.
C9_RenewFailureIsErr ==
    /\ \A h \in OpenHandles :
          inactive_txn[h] # None =>
             /\ \A keys \in KeyBatches, cap \in BufLens :
                   LET r == GetMultiRun(inactive_txn[h], store, keys, cap, 0)
                   IN /\ r.rc = "ERR" /\ r.err = ErrRenew
                      /\ r.lens = <<>> /\ r.buf = <<>>
                      /\ SlotAfterRead(r.rc) = None
             /\ \A nk \in 0..MaxLens, cap \in BufLens :
                   LET r == GetDatabasesRun(inactive_txn[h], store, nk, cap, 0)
                   IN /\ r.rc = "ERR" /\ r.err = ErrRenew
                      /\ r.lens = <<>> /\ r.buf = <<>>
                      /\ SlotAfterRead(r.rc) = None
    /\ ret.err = ErrRenew =>
          /\ ret.op \in {"get_multi", "get_databases"}
          /\ ret.rc = "ERR"
          /\ inactive_txn[ret.h] = None
          /\ last_err[ret.h] = ErrRenew

\* A read call has returned ERR because the renewal failed.
C9_Witness ==
    /\ ret.rc = "ERR" /\ ret.err = ErrRenew
    /\ ret.op = "get_multi"
    /\ store.kv # {}

\* ------------------------------------------------------------------ C10
\* C10: the handle remains usable: in every state a boundary call leaves,
\* the write lock of the store is free, no handle has an active read
\* transaction, a filled suspended slot holds a reset transaction, and on
\* every open handle a set_multi and a get_multi that meet no engine error
\* return OK.
C10_HandleUsable ==
    /\ writer = 0
    /\ \A h \in DOMAIN status :
          /\ rtxn[h] # "active"
          /\ inactive_txn[h] # None => rtxn[h] = "reset"
    /\ \A h \in OpenHandles, k \in Keys, v \in Vals :
          /\ writer = 0
          /\ SetMultiRun(store.kv, <<[key |-> k, null |-> FALSE, val |-> v]>>,
                         NoFault, 0).rc = "OK"
          /\ GetMultiRun(inactive_txn[h], store, <<k>>, MaxBuf, NoFault).rc = "OK"

\* drop_database has failed inside its write transaction on a handle that
\* holds a suspended read transaction.
C10_Witness ==
    /\ ret.op = "drop_database" /\ ret.rc = "ERR" /\ ret.err = ErrWrite
    /\ inactive_txn[ret.h] # None
    /\ store.dbs # {}

\* ------------------------------------------------------------------ C11
\* C11: database lifecycle after drop: in every reachable state, for every
\* open handle and name, when create_database(name) returns OK and the
\* drop_database(name) that follows returns OK, the name is neither in the
\* handle's cache nor a database of the store any more, and a following
\* clear_database(name) or drop_database(name) on the handle returns ERR
\* with NotFound.
C11_DropEvicts ==
    \A h \in OpenHandles, name \in DbNames :
        LET c == GetDatabaseHandle(databases[h], store.dbs, name, TRUE, NoFault)
            d == DropOrClearRun(c.cache, c.dbs, name, TRUE, NoFault)
        IN (c.err = "None" /\ d.rc = "OK") =>
             /\ ~CacheHit(d.cache, name)
             /\ name \notin d.dbs
             /\ \A del \in BOOLEAN :
                   LET e == DropOrClearRun(d.cache, d.dbs, name, del, NoFault)
                   IN /\ e.rc = "ERR" /\ e.err = "NotFound"
                      /\ e.cache = d.cache /\ e.dbs = d.dbs

\* drop_database has returned OK on a database that a create_database made,
\* and neither the store nor the cache holds a name any more.
C11_Witness ==
    /\ ret.op = "drop_database" /\ ret.rc = "OK"
    /\ store.dbs = {}
    /\ databases[ret.h] = {}

\* ------------------------------------------------------------------ C12
\* C12: create_database is idempotent: in every reachable state, for every
\* open handle and name, when create_database(name) returns OK a second
\* create_database(name) returns OK as well, leaves the databases of the
\* store and the cache as the first call left them, and resolves the name
\* to the identifier the first call resolved it to.
C12_CreateIdempotent ==
    \A h \in OpenHandles, name \in DbNames :
        LET c1 == GetDatabaseHandle(databases[h], store.dbs, name, TRUE, NoFault)
            c2 == GetDatabaseHandle(c1.cache, c1.dbs, name, TRUE, NoFault)
        IN c1.err = "None" =>
             /\ c2.err = "None"
             /\ c2.dbs = c1.dbs
             /\ c2.cache = c1.cache
             /\ c2.dbi = c1.dbi
             /\ c1.dbi # NoDbi
             /\ name \in c1.dbs

\* create_database has returned OK on a handle that had the name cached
\* already by an earlier create_database.
C12_Witness ==
    /\ ret.op = "create_database" /\ ret.rc = "OK"
    /\ DbNames \subseteq CacheNames(databases[ret.h])
    /\ DbNames \subseteq store.dbs

\* ------------------------------------------------------------------ C19
\* C19: cache coherence on one handle: in every reachable state every name
\* in a handle's cache is a database of the store, no name is cached twice,
\* and a resolution that fails (the open of an absent name, a create or an
\* open the engine refuses) leaves the cache as it was.
C19_CacheCoherent ==
    \A h \in DOMAIN status :
        /\ CacheNames(databases[h]) \subseteq store.dbs
        /\ \A p, q \in databases[h] : p[1] = q[1] => p = q
        /\ \A name \in DbNames, create \in BOOLEAN, f \in Faults(0) :
              LET g == GetDatabaseHandle(databases[h], store.dbs, name, create, f)
              IN g.err # "None" => g.cache = databases[h]

\* drop_database has failed at its commit, on a database the handle has
\* cached.
C19_Witness ==
    /\ ret.op = "drop_database" /\ ret.rc = "ERR" /\ ret.err = ErrWrite
    /\ databases[ret.h] # {}
    /\ inactive_txn[ret.h] = None

C14_State ==
    \A h \in DOMAIN status :
        /\ Len(inactive_txn[h]) <= 1
        /\ call[h].pc = "reading" => inactive_txn[h] = None /\ rtxn[h] = "active"
        /\ call[h].pc # "reading" => rtxn[h] # "active"
        /\ call[h].pc = "writing" => writer = h
        /\ inactive_txn[h] # None => rtxn[h] = "reset"
        /\ status[h] # "open" => inactive_txn[h] = None /\ rtxn[h] = "none"
        /\ (ret.h = h /\ ret.op = "get_multi" /\ call[h].pc = "idle"
            /\ status[h] = "open") =>
              /\ ret.rc = "OK" => inactive_txn[h] # None
              /\ ret.rc \in {"ERR", "AGAIN"} =>
                    inactive_txn[h] = None /\ rtxn[h] = "none"

\* The moves: a transaction becomes active only by entering get_multi (from
\* none: begin, from reset: renew), which empties the slot; the slot is
\* filled only by a get_multi that returns OK.
C14_Moves ==
    \A h \in DOMAIN status :
        /\ (rtxn[h] # "active" /\ rtxn'[h] = "active") =>
              /\ call[h].pc = "idle" /\ call'[h].pc = "reading"
              /\ inactive_txn'[h] = None
              /\ (rtxn[h] = "reset") = (inactive_txn[h] # None)
        /\ (inactive_txn[h] = None /\ inactive_txn'[h] # None) =>
              /\ call[h].pc = "reading" /\ call'[h].pc = "idle"
              /\ ret'.h = h /\ ret'.op = "get_multi" /\ ret'.rc = "OK"

\* C14: the read-transaction state machine of a handle: every step of every
\* call keeps the states of C14_State (at most one suspended and at most one
\* active transaction, never one both suspended and in use, the slot empty
\* during a read call, after ERR, after AGAIN and after close, filled after
\* OK) and makes only the moves of C14_Moves (begin, renew, suspend, drop).
C14_ReadTxnStateMachine == [][C14_State' /\ C14_Moves]_vars

\* The handle is inside a get_multi that renewed the transaction the
\* get_multi before it had suspended, and has read one key already.
C14_Witness ==
    \E h \in DOMAIN status :
        /\ call[h].pc = "reading" /\ call[h].i >= 2
        /\ ret.h = h /\ ret.op = "get_multi" /\ ret.rc = "OK"
        /\ store.kv # {}

\* ------------------------------------------------------------------ C15
\* C15: readers never see a partial write batch: in every state of every
\* interleaving of a get_multi on one handle with set_multi batches on
\* another, the lengths and bytes the get_multi has produced so far (all of
\* them once its last key is read) are those of the pairs that were
\* committed when it began or renewed its transaction, whatever the writer
\* has applied or committed since; and what is committed changes only by the
\* commit of a whole batch.
C15_NoPartialBatch ==
    /\ \A h \in DOMAIN status :
          call[h].pc = "reading" =>
             LET c == call[h]
                 done == SubSeq(c.keys, 1, c.i - 1)
             IN /\ c.lens = ExpectLens(c.pre, done)
                /\ c.buf = ExpectBuf(c.pre, done)
    /\ \A h \in DOMAIN status :
          (call[h].pc = "writing" /\ call[h].i = 1) => call[h].work = store.kv

\* The reader has read all its keys while the writer committed a batch that
\* changed the value of every one of them.
C15_Witness ==
    /\ call[Reader].pc = "reading"
    /\ call[Reader].i > Len(call[Reader].keys)
    /\ ret.h = Writer /\ ret.op = "set_multi" /\ ret.rc = "OK"
    /\ \A j \in 1..Len(call[Reader].keys) :
          ExpectLens(call[Reader].pre, <<call[Reader].keys[j]>>)
            # ExpectLens(store.kv, <<call[Reader].keys[j]>>)
    /\ \E i, j \in 1..Len(call[Reader].keys) :
          call[Reader].keys[i] # call[Reader].keys[j]

\* ------------------------------------------------------------------ C16
\* The pairs a batch must leave on the pairs kv: for every key the batch
\* touches, what its last entry for the key says; every other pair as it was.
LastWins(kv, entries) ==
    {p \in kv : \A i \in 1..Len(entries) : entries[i].key # p[1]}
    \cup {<<k, v>> \in Keys \X Vals : LastPut(entries, k, v)}

\* C16: set_multi applies its entries in the supplied order inside one
\* transaction: at every step of the loop the working copy of the write
\* transaction is what the entries applied so far leave when the last entry
\* for each key wins, and a batch that commits leaves exactly that as the
\* committed pairs (a put then a delete of a key leave it absent, a delete
\* then a put leave the put value, two puts leave the second value).
C16_LastEntryWins ==
    /\ \A h \in DOMAIN status :
          call[h].pc = "writing" =>
             call[h].work
               = LastWins(store.kv, SubSeq(call[h].entries, 1, call[h].i - 1))
    /\ \A h \in DOMAIN status :
          (call[h].pc = "writing" /\ call[h].i > Len(call[h].entries)) =>
             Commit(store.kv, call[h].work, "None")
               = LastWins(store.kv, call[h].entries)

\* set_multi has applied a put and then a delete of the same key, which was
\* stored before, and is about to commit.
C16_Witness ==
    \E h \in DOMAIN status :
        /\ call[h].pc = "writing"
        /\ call[h].i > Len(call[h].entries)
        /\ Len(call[h].entries) >= 2
        /\ call[h].entries[1].key = call[h].entries[2].key
        /\ ~call[h].entries[1].null /\ call[h].entries[2].null
        /\ Has(store.kv, call[h].entries[1].key)

\* ------------------------------------------------------------------ C17
\* C17: key enumeration never exceeds its output arrays: for every store
\* content, every num_keys and every buffer length, get_databases hands back
\* a return code (OK, or AGAIN when the space does not suffice, be it the
\* buffer or value_lens), having written at most num_keys lengths and at
\* most values_buf_len bytes; no fault crosses the boundary.
C17_EnumerationInBounds ==
    \A h \in OpenHandles, nk \in 0..MaxLens, cap \in BufLens :
        LET r == GetDatabasesRun(inactive_txn[h], store, nk, cap, NoFault)
            items == CursorKeys(store)
        IN /\ r.rc \in {"OK", "AGAIN"}
           /\ Len(r.lens) <= nk
           /\ Len(r.buf) <= cap
           /\ (Len(items) > nk \/ Len(ConcatAll(items)) > cap) => r.rc = "AGAIN"

\* ------------------------------------------------------------------ C18
\* C18: close ordering: whenever close has destroyed a handle, the suspended
\* transaction was released before the environment was closed, and the call
\* came back.
C18_TxnReleasedBeforeEnv ==
    ret.op = "close" =>
        /\ DroppedBefore("inactive_txn", "env")
        /\ ret.rc = "VOID"

====
